---- MODULE Spec2Model ----
(***************************************************************************)
(* Model of the oracle-script repository: the price-update cycle           *)
(* (updateOraclePrices), the two price readers, the in-process scheduler   *)
(* (startContinuousUpdates / runUpdate), the invocation-style handler with *)
(* its self-rescheduling variant, and the command-line entry point.        *)
(*                                                                         *)
(* Three builds of the workflow are in the repository:                     *)
(*   "ts"     src/src/update-oracle.ts   (scheduler module, plain handler) *)
(*   "lambda" src/dist/update-oracle.js  (handler that re-invokes itself)  *)
(*   "script" src/unnamed/part_000       (direct script, no handler)       *)
(***************************************************************************)
EXTENDS Integers, Sequences, FiniteSets, TLC

(***************************************************************************)
(* Bounds of the model.                                                    *)
(***************************************************************************)
MaxTasks == 2
MaxBalance == 2
MaxTicks == 2
MaxPriceChanges == 1
MaxStrLen == 2
MaxListLen == 2

(***************************************************************************)
(* Program constants.                                                      *)
(***************************************************************************)
UPDATE_INTERVAL == 45 * 1000
MIN_DELAY == 500
ERROR_DELAY == 10000

Max(a, b) == IF a >= b THEN a ELSE b

Last(q) == q[Len(q)]

(***************************************************************************)
(* Strings are sequences of one-character strings, so that startsWith and  *)
(* concatenation are computed rather than assumed.                         *)
(***************************************************************************)
Alphabet == {"0", "x", "a"}

StringsUpTo(n) == UNION {[1..k -> Alphabet] : k \in 0..n}

ListsUpTo(n, S) == UNION {[1..k -> S] : k \in 0..n}

startsWith(s, p) == Len(s) >= Len(p) /\ SubSeq(s, 1, Len(p)) = p

Prefix0x == <<"0", "x">>

\* rawData.map callback: add the 0x prefix if it does not exist
NormalizeTwicePrefixed(hexString) == Prefix0x \o hexString

NormalizeHex(hexString) ==
    IF ~startsWith(hexString, Prefix0x) THEN Prefix0x \o hexString ELSE hexString

\* rawData.map(...)
NormalizeAll(rawData) == [i \in 1..Len(rawData) |-> NormalizeHex(rawData[i])]

(***************************************************************************)
(* On-chain integers (uint256) are kept as three base-10^9 limbs           *)
(* <<hi, mid, lo>>, value hi*10^18 + mid*10^9 + lo, so that the 18-decimal *)
(* scaling can be computed on machine integers.                            *)
(***************************************************************************)
Limb == 10^9

DigitChar(d) == <<"0", "1", "2", "3", "4", "5", "6", "7", "8", "9">>[d + 1]

RECURSIVE DigitsOf(_)
DigitsOf(n) == IF n < 10 THEN <<DigitChar(n)>>
               ELSE Append(DigitsOf(n \div 10), DigitChar(n % 10))

RECURSIVE PadLeft(_, _)
PadLeft(s, w) == IF Len(s) >= w THEN s ELSE PadLeft(<<"0">> \o s, w)

Pad9(n) == PadLeft(DigitsOf(n), 9)

RECURSIVE StripLeadingZeros(_)
StripLeadingZeros(s) ==
    IF Len(s) > 1 /\ s[1] = "0" THEN StripLeadingZeros(Tail(s)) ELSE s

RECURSIVE StripTrailingZeros(_)
StripTrailingZeros(s) ==
    IF Len(s) > 1 /\ s[Len(s)] = "0"
    THEN StripTrailingZeros(SubSeq(s, 1, Len(s) - 1)) ELSE s

\* price.toString(): the integer in decimal, no scaling
BigIntToString(v) ==
    StripLeadingZeros(DigitsOf(v[1]) \o Pad9(v[2]) \o Pad9(v[3]))

\* ethers.formatUnits(price, 18): integer part, ".", 18 fractional digits with
\* trailing zeros dropped (at least one digit kept)
formatUnits18(v) ==
    DigitsOf(v[1]) \o <<".">> \o StripTrailingZeros(Pad9(v[2]) \o Pad9(v[3]))

(***************************************************************************)
(* Thrown values and results.                                              *)
(***************************************************************************)
\* Values that reach a result are tagged with their JavaScript type.
Str(s) == [type |-> "string", value |-> s]
BigInt(v) == [type |-> "bigint", value |-> v]

\* new Error(m): String(error) of it is "Error: " followed by the message
Err(m) == [type |-> "object", isError |-> TRUE, message |-> m,
           text |-> <<"Error: ", m>>]

NO_KEY_MESSAGE == "PRIVATE_KEY_TEST environment variable is not set."

\* formatError: the message of an Error, String(error) of anything else
formatError(error) ==
    Str(IF error.isError THEN error.message ELSE error.text)

NoResult == [none |-> TRUE]
NoOut == [none |-> TRUE]

IsResult(r) == "success" \in DOMAIN r

(***************************************************************************)
(* Environment value sets.                                                 *)
(***************************************************************************)
Variants == {"ts", "lambda", "script"}
Drivers == {"cli", "handler"}
Keys == {"", "k1"}
Addr == {"0xAAA", "0xBBB"}
Accessors == {"getUnderlyingPrice", "assetPrices"}

\* 1 wei, 1.5 * 10^18, 2000.000000001 * 10^18
Raws == {<<0, 0, 1>>, <<1, 500000000, 0>>, <<2000, 0, 999999999>>}
REVERT == <<>>
PriceVals == Raws \cup {REVERT}
NewPriceVals == {<<1, 0, 0>>}

\* the binary.data arrays the attestation service answers with in Spec
HermesLists == {<<<<"a">>, <<"0", "x", "a">>>>, <<<<"0", "x">>>>}

Durations == {1000, 44500}

VARIABLES
    variant,        \* which build of the workflow runs
    driver,         \* how it is driven: command line or handler invocations
    PRIVATE_KEY,    \* process.env.PRIVATE_KEY_TEST, "" when unset
    awsEnv,         \* process.env.AWS_EXECUTION_ENV is set
    tasks,          \* every top-level unit started so far, in start order
    timers,         \* pending setTimeout(runUpdate, delay) timers
    pendingInvokes, \* asynchronous re-invocations accepted by the host
    now,            \* Date.now()
    balance,        \* signer balance on chain
    prices,         \* stored prices on chain, per accessor and address
    epoch,          \* number of external price changes so far
    txs             \* price-update transactions sent to the chain

vars == <<variant, driver, PRIVATE_KEY, awsEnv, tasks, timers, pendingInvokes,
          now, balance, prices, epoch, txs>>

config == <<variant, driver, PRIVATE_KEY, awsEnv>>
chain == <<balance, prices, epoch, txs>>

(***************************************************************************)
(* Tasks.  A task is one top-level unit: a command-line process running    *)
(* one operation, one call of runUpdate, or one handler invocation.  It    *)
(* runs one public operation (op, pc) and then its driver's continuation   *)
(* (drv).                                                                  *)
(***************************************************************************)
InFlightPcs == {"getBalance", "fetch", "pyth", "fee", "send", "wait", "read"}

InFlight(t) == t.pc \in InFlightPcs

Finished(t) == t.pc = "returned" /\ t.drv = "finished"

TaskIds == 1..Len(tasks)

CyclesInFlight == {i \in TaskIds : tasks[i].op = "update" /\ InFlight(tasks[i])}

\* what the catch block of an operation returns for a caught value
CaughtSuccess(e) == [threw |-> FALSE, result |-> [success |-> TRUE, hash |-> 0]]

Caught(e) ==
    [threw |-> FALSE,
     result |-> [success |-> FALSE,
                 error |-> IF variant = "script" THEN e ELSE formatError(e)]]

\* the operation of task t ends in its catch block with value e
Fail(t, call, e) ==
    [t EXCEPT !.pc = "returned",
              !.threw = Caught(e).threw,
              !.result = Caught(e).result,
              !.calls = IF call = "" THEN @ ELSE Append(@, call),
              !.data = <<>>, !.rawData = <<>>, !.fee = 0]

\* the first statements of updateOraclePrices, up to its first await
HasBalanceRead == variant \in {"ts", "lambda"}

\* a cycle that does not look at the credential before it starts
BeginUpdateUnchecked(t) ==
    [t EXCEPT !.pc = IF HasBalanceRead THEN "getBalance" ELSE "fetch"]

BeginUpdate(t) ==
    IF PRIVATE_KEY = ""
    THEN Fail(t, "", Err(NO_KEY_MESSAGE))
    ELSE [t EXCEPT !.pc = IF HasBalanceRead THEN "getBalance" ELSE "fetch"]

\* a read that asks for the credential as the submission cycle does
BeginReadWithCredential(t) ==
    IF PRIVATE_KEY = ""
    THEN Fail(t, "", Err(NO_KEY_MESSAGE))
    ELSE [t EXCEPT !.pc = "read"]

BeginRead(t) == [t EXCEPT !.pc = "read"]

\* Bookkeeping of the model, not of the program: when a task starts, what
\* the finished tasks and the settled transactions before it no longer need
\* is blanked (before another read, a read keeps its address, its result and
\* the epoch it read in).
Blank ==
    [kind |-> "", op |-> "update", cmd |-> "", addr |-> "",
     noReschedule |-> FALSE, pc |-> "returned", drv |-> "finished",
     startTime |-> 0, ticks |-> 0, data |-> <<>>, fee |-> 0, tx |-> 0,
     rawData |-> <<>>, threw |-> FALSE, result |-> NoResult, calls |-> <<>>,
     logged |-> <<>>, raw |-> REVERT, epoch |-> 0, out |-> NoOut,
     key |-> "", cause |-> "external"]

Retire(t, next) ==
    IF ~Finished(t) THEN t
    ELSE IF t.op = "update" \/ next.op = "update"
         THEN [Blank EXCEPT !.kind = t.kind]
    ELSE [Blank EXCEPT !.kind = t.kind, !.op = t.op, !.addr = t.addr,
                       !.result = t.result, !.epoch = t.epoch,
                       !.key = t.key]

Started(t) == Append([i \in TaskIds |-> Retire(tasks[i], t)], t)

\* a transaction goes once it is final on chain and its sender has finished
LiveTx(k) == txs[k].status = "pending" \/ ~Finished(tasks[txs[k].by])

RetireTx(x) ==
    IF Finished(tasks[x.by]) THEN [x EXCEPT !.data = <<>>, !.quoted = 0] ELSE x

SettledTxs == [k \in {h \in DOMAIN txs : LiveTx(h)} |-> RetireTx(txs[k])]

NewTask(kind, op, ev, at) ==
    LET t0 == [kind |-> kind, op |-> op, cmd |-> ev.command,
               addr |-> ev.address, noReschedule |-> ev.noReschedule,
               pc |-> "start", drv |-> "awaiting",
               startTime |-> at, ticks |-> 0,
               data |-> <<>>, fee |-> 0, tx |-> 0, rawData |-> <<>>,
               threw |-> FALSE, result |-> NoResult,
               calls |-> <<>>, logged |-> <<>>, raw |-> REVERT,
               epoch |-> epoch, out |-> NoOut,
               key |-> PRIVATE_KEY, cause |-> "external"]
    IN IF op = "update" THEN BeginUpdate(t0) ELSE BeginRead(t0)

(***************************************************************************)
(* updateOraclePrices, one action per await.  Every external call either   *)
(* answers or throws; a throw lands in the operation's catch block.        *)
(***************************************************************************)
Called(t, call) == [t EXCEPT !.calls = Append(@, call)]

\* const balance = await provider.getBalance(wallet.address)  (logged only)
AwaitGetBalance(i) ==
    /\ tasks[i].pc = "getBalance"
    /\ \E ok \in BOOLEAN :
         tasks' = [tasks EXCEPT ![i] =
             IF ok THEN [Called(@, "getBalance") EXCEPT !.pc = "fetch"]
             ELSE Fail(@, "getBalance", Err("rpc error"))]
    /\ UNCHANGED <<config, timers, pendingInvokes, now, chain>>

\* await axios.get(hermesUrl); rawData = response.data.binary.data; map
FetchStep(i, lists) ==
    /\ tasks[i].pc = "fetch"
    /\ \E outcome \in {"ok", "network error", "malformed response"} :
       \E rawData \in lists :
         tasks' = [tasks EXCEPT ![i] =
             IF outcome = "ok"
             THEN [Called(@, "hermes") EXCEPT !.pc = "pyth",
                                              !.rawData = rawData,
                                              !.data = NormalizeAll(rawData)]
             ELSE Fail(@, "hermes", Err(outcome))]
    /\ UNCHANGED <<config, timers, pendingInvokes, now, chain>>

\* a fetch that is tried again within the operation when it fails
AwaitFetchRetrying(i) ==
    /\ tasks[i].pc = "fetch"
    /\ \E ok \in BOOLEAN : \E rawData \in HermesLists :
         tasks' = [tasks EXCEPT ![i] =
             IF ok THEN [Called(@, "hermes") EXCEPT !.pc = "pyth",
                                                    !.rawData = rawData,
                                                    !.data = NormalizeAll(rawData)]
             ELSE Called(@, "hermes")]
    /\ UNCHANGED <<config, timers, pendingInvokes, now, chain>>

AwaitFetch(i) == FetchStep(i, HermesLists)

\* const pythAddress = await oracleContract.pyth()
AwaitPyth(i) ==
    /\ tasks[i].pc = "pyth"
    /\ \E ok \in BOOLEAN :
         tasks' = [tasks EXCEPT ![i] =
             IF ok THEN [Called(@, "pyth") EXCEPT !.pc = "fee"]
             ELSE Fail(@, "pyth", Err("rpc error"))]
    /\ UNCHANGED <<config, timers, pendingInvokes, now, chain>>

\* the verifier charges one unit per update blob
FeeQuote(data) == Len(data)

\* const updateFee = await pythContract.getUpdateFee(priceUpdateData)
AwaitFee(i) ==
    /\ tasks[i].pc = "fee"
    /\ \E ok \in BOOLEAN :
         LET t == tasks[i]
         IN tasks' = [tasks EXCEPT ![i] =
             IF ok THEN [Called(t, "getUpdateFee") EXCEPT !.pc = "send",
                                                         !.fee = FeeQuote(t.data)]
             ELSE Fail(t, "getUpdateFee", Err("rpc error"))]
    /\ UNCHANGED <<config, timers, pendingInvokes, now, chain>>

\* a send that attaches no payment
TxValueNone(t) == 0

\* the value attached to the transaction: { value: updateFee }
TxValue(t) == t.fee

\* the node accepts a transaction only from a signer that can pay its value
ChainAccepts(value) == balance >= value

\* what follows an accepted send: const receipt = await tx.wait()
AfterSendReturn(t, n) ==
    [t EXCEPT !.pc = "returned", !.tx = n,
              !.result = [success |-> TRUE, hash |-> n],
              !.data = <<>>, !.rawData = <<>>, !.fee = 0]

AfterSend(t, n) == [t EXCEPT !.pc = "wait", !.tx = n]

\* the hash of the next transaction: the first one not in use
NewHash == CHOOSE n \in 1..(Cardinality(DOMAIN txs) + 1) :
              /\ n \notin DOMAIN txs
              /\ \A m \in 1..(n - 1) : m \in DOMAIN txs

\* const tx = await oracleContract.updatePythPrices(data, {value: updateFee})
AwaitSend(i) ==
    /\ tasks[i].pc = "send"
    /\ \E ok \in BOOLEAN :
         LET t == tasks[i]
             n == NewHash
         IN IF ok /\ ChainAccepts(TxValue(t))
            THEN /\ txs' = txs @@ (n :> [value |-> TxValue(t), data |-> t.data,
                                         status |-> "pending", by |-> i,
                                         quoted |-> t.fee])
                 /\ tasks' = [tasks EXCEPT ![i] =
                                AfterSend(Called(t, "updatePythPrices"), n)]
            ELSE /\ txs' = txs
                 /\ tasks' = [tasks EXCEPT ![i] =
                       Fail(t, "updatePythPrices",
                            Err(IF ok THEN "insufficient funds"
                                ELSE "rpc error"))]
    /\ UNCHANGED <<config, timers, pendingInvokes, now, balance, prices, epoch>>

\* the chain includes a pending transaction in a block, or it fails there
Mine(k) ==
    /\ txs[k].status = "pending"
    /\ \E ok \in BOOLEAN :
         IF ok /\ balance >= txs[k].value
         THEN /\ txs' = [txs EXCEPT ![k].status = "mined"]
              /\ balance' = balance - txs[k].value
         ELSE /\ txs' = [txs EXCEPT ![k].status = "reverted"]
              /\ balance' = balance
    /\ UNCHANGED <<config, tasks, timers, pendingInvokes, now, prices, epoch>>

\* return { success: true, hash: tx.hash }
ReturnHash(t) ==
    [Called(t, "wait") EXCEPT !.pc = "returned",
                              !.result = [success |-> TRUE, hash |-> t.tx],
                              !.data = <<>>, !.rawData = <<>>, !.fee = 0]

\* const receipt = await tx.wait()
AwaitWait(i) ==
    /\ tasks[i].pc = "wait"
    /\ \E ok \in BOOLEAN :
         LET t == tasks[i]
             st == txs[t.tx].status
         IN /\ ok => st # "pending"
            /\ tasks' = [tasks EXCEPT ![i] =
                  IF ok /\ st = "mined" THEN ReturnHash(t)
                  ELSE Fail(t, "wait",
                            Err(IF ok THEN "transaction failed"
                                ELSE "rpc error"))]
    /\ UNCHANGED <<config, timers, pendingInvokes, now, chain>>

(***************************************************************************)
(* getUnderlyingPrice / getAssetPrice: one contract call each.             *)
(***************************************************************************)
AccessorOf(op) == IF op = "price" THEN "getUnderlyingPrice" ELSE "assetPrices"

\* the price field of a successful read
PriceFieldScaled(v) == Str(formatUnits18(v))

PriceField(v) ==
    IF variant = "script" THEN BigInt(v) ELSE Str(BigIntToString(v))

\* a read that is sent as a transaction the signer pays for
AwaitReadPaying(i) ==
    /\ tasks[i].pc = "read"
    /\ balance > 0
    /\ balance' = balance - 1
    /\ LET t == tasks[i]
           acc == AccessorOf(t.op)
           v == prices[<<acc, t.addr>>]
       IN tasks' = [tasks EXCEPT ![i] =
            IF v # REVERT
            THEN [Called(Called(t, "send"), acc) EXCEPT
                     !.pc = "returned", !.raw = v, !.epoch = epoch,
                     !.logged = formatUnits18(v),
                     !.result = [success |-> TRUE, price |-> PriceField(v)]]
            ELSE [Fail(t, acc, Err("execution reverted")) EXCEPT !.epoch = epoch]]
    /\ UNCHANGED <<config, timers, pendingInvokes, now, prices, epoch, txs>>

\* const price = await oracleContract.<accessor>(address); log; return
AwaitRead(i) ==
    /\ tasks[i].pc = "read"
    /\ \E ok \in BOOLEAN :
         LET t == tasks[i]
             acc == AccessorOf(t.op)
             v == prices[<<acc, t.addr>>]
         IN tasks' = [tasks EXCEPT ![i] =
              IF ok /\ v # REVERT
              THEN [Called(t, acc) EXCEPT
                       !.pc = "returned", !.raw = v, !.epoch = epoch,
                       !.logged = formatUnits18(v),
                       !.result = [success |-> TRUE, price |-> PriceField(v)]]
              ELSE [Fail(t, acc, Err(IF ok THEN "execution reverted"
                                       ELSE "rpc error"))
                       EXCEPT !.epoch = epoch]]
    /\ UNCHANGED <<config, timers, pendingInvokes, now, chain>>

\* somebody else changes a stored price (between two operations of ours:
\* a change while an operation runs looks to it like one before or after)
PriceChange ==
    /\ epoch < MaxPriceChanges
    /\ \A i \in TaskIds : ~InFlight(tasks[i])
    /\ \E k \in DOMAIN prices : \E v \in NewPriceVals :
         /\ \E i \in TaskIds : tasks[i].op # "update" /\ tasks[i].addr = k[2]
         /\ v # prices[k]
         /\ prices' = [prices EXCEPT ![k] = v]
    /\ epoch' = epoch + 1
    /\ UNCHANGED <<config, tasks, timers, pendingInvokes, now, balance, txs>>

\* a task whose driver has finished keeps its result and outcome only
Settled(t) == [t EXCEPT !.drv = "finished", !.ticks = 0]

(***************************************************************************)
(* Entry points.  Command-line arguments and handler events carry the same *)
(* two fields; an absent field is "".                                      *)
(***************************************************************************)
Ev(c, a, n) == [command |-> c, address |-> a, noReschedule |-> n]

Inputs ==
    {Ev("", "", FALSE), Ev("continuous", "", FALSE), Ev("price", "", FALSE)}
    \cup {Ev(c, a, FALSE) : c \in {"price", "asset-price"}, a \in Addr}

\* if (args[0] === "price" && args[1]) ... else if ... else
CliDispatch(ev) ==
    IF ev.command = "price" /\ ev.address # "" THEN "price"
    ELSE IF ev.command = "asset-price" /\ ev.address # "" THEN "asset"
    ELSE IF ev.command = "continuous" /\ variant = "ts" THEN "continuous"
    ELSE "update"

\* a dispatch that looks at the command only, not at the address
HandlerDispatchByCommand(ev) ==
    IF ev.command = "price" THEN "price"
    ELSE IF ev.command = "asset-price" THEN "asset"
    ELSE "update"

\* a dispatch whose second branch calls the reader of the first
HandlerDispatchSameReader(ev) ==
    IF ev.command = "price" /\ ev.address # "" THEN "price"
    ELSE IF ev.command = "asset-price" /\ ev.address # "" THEN "price"
    ELSE "update"

\* if (event.command === "price" && event.address) ... else if ... else
HandlerDispatch(ev) ==
    IF ev.command = "price" /\ ev.address # "" THEN "price"
    ELSE IF ev.command = "asset-price" /\ ev.address # "" THEN "asset"
    ELSE "update"

Quiescent ==
    /\ \A i \in TaskIds : Finished(tasks[i])
    /\ timers = <<>>
    /\ pendingInvokes = 0

\* a process is started from the command line
StartProcess ==
    /\ driver = "cli"
    /\ Quiescent
    /\ Len(tasks) < MaxTasks
    /\ \E ev \in Inputs :
         LET d == CliDispatch(ev)
         IN tasks' = Started(
                IF d = "continuous" THEN NewTask("runUpdate", "update", ev, now)
                ELSE NewTask("cli", d, ev, now))
    /\ txs' = SettledTxs
    /\ UNCHANGED <<config, timers, pendingInvokes, now, balance, prices, epoch>>

\* .then(() => process.exit(0)).catch((error) => { ...; process.exit(1) })
ExitCode(t) == IF t.threw THEN 1 ELSE 0

CliExit(i) ==
    /\ tasks[i].kind = "cli"
    /\ tasks[i].drv = "awaiting"
    /\ tasks[i].pc = "returned"
    /\ tasks' = [tasks EXCEPT ![i] =
                    [Settled(@) EXCEPT !.out = [exit |-> ExitCode(tasks[i])]]]
    /\ UNCHANGED <<config, timers, pendingInvokes, now, chain>>

(***************************************************************************)
(* startContinuousUpdates / runUpdate.                                     *)
(***************************************************************************)
\* await updateOraclePrices(): runUpdate goes on once the cycle has settled
RunUpdateNotAwaited(t) == TRUE

\* a runUpdate that goes on to schedule only after a successful cycle
RunUpdateOnlyAfterSuccess(t) == t.pc = "returned" /\ t.result.success

RunUpdateAwaited(t) == t.pc = "returned"

\* Math.max(500, UPDATE_INTERVAL - executionTime)
TimeUntilNextUnclamped(executionTime) == UPDATE_INTERVAL - executionTime

TimeUntilNext(executionTime) == Max(MIN_DELAY, UPDATE_INTERVAL - executionTime)

\* the delay runUpdate hands to setTimeout: try branch or catch branch
NextDelay(t, endTime) ==
    IF t.threw THEN ERROR_DELAY ELSE TimeUntilNext(endTime - t.startTime)

RunUpdateSchedule(i) ==
    /\ tasks[i].kind = "runUpdate"
    /\ tasks[i].drv = "awaiting"
    /\ RunUpdateAwaited(tasks[i])
    /\ LET t == tasks[i]
           d == NextDelay(t, now)
       IN /\ timers' = Append(timers, [delay |-> d, setAt |-> now, by |-> i])
          /\ tasks' = [tasks EXCEPT ![i] =
                 [Settled(@) EXCEPT !.out = [delay |-> d,
                                             executionTime |-> now - t.startTime,
                                             backoff |-> t.threw]]]
    /\ UNCHANGED <<config, pendingInvokes, now, chain>>

\* a pending timer expires and calls runUpdate
TimerFire ==
    /\ timers # <<>>
    /\ Len(tasks) < MaxTasks
    /\ LET tm == Head(timers)
           at == Max(now, tm.setAt + tm.delay)
       IN /\ now' = at
          /\ tasks' = Started(
                 NewTask("runUpdate", "update", Ev("continuous", "", FALSE), at))
    /\ timers' = Tail(timers)
    /\ txs' = SettledTxs
    /\ UNCHANGED <<config, pendingInvokes, balance, prices, epoch>>

\* time passes while a scheduled cycle waits for an external call
Tick(i) ==
    /\ tasks[i].kind = "runUpdate"
    /\ InFlight(tasks[i])
    /\ tasks[i].ticks < MaxTicks
    /\ \E d \in Durations : now' = now + d
    /\ tasks' = [tasks EXCEPT ![i].ticks = @ + 1]
    /\ UNCHANGED <<config, timers, pendingInvokes, chain>>

(***************************************************************************)
(* handler, and scheduleNextInvocation of the self-rescheduling build.     *)
(***************************************************************************)
HandlerEvents ==
    Inputs \cup (IF variant = "lambda" /\ awsEnv
                 THEN {Ev(e.command, e.address, TRUE) : e \in Inputs} ELSE {})

\* the host delivers an invocation from outside
InvokeHandler ==
    /\ driver = "handler"
    /\ Quiescent
    /\ Len(tasks) < MaxTasks
    /\ \E ev \in HandlerEvents :
         tasks' = Started(NewTask("handler", HandlerDispatch(ev), ev, now))
    /\ txs' = SettledTxs
    /\ UNCHANGED <<config, timers, pendingInvokes, now, balance, prices, epoch>>

JSONstringify(r) == [json |-> r]

\* a condition that leaves out the event's noReschedule field
WantsRescheduleAlways(t) == variant = "lambda" /\ awsEnv

\* if (process.env.AWS_EXECUTION_ENV && !event.noReschedule)
WantsReschedule(t) == variant = "lambda" /\ awsEnv /\ ~t.noReschedule

\* return { statusCode: 200, body } from the try block, 500 from the catch
StatusCode(t) == IF t.threw THEN 500 ELSE 200

ResponseBody(t) ==
    JSONstringify(IF t.threw
                  THEN [success |-> FALSE, error |-> formatError(t.result.thrown)]
                  ELSE t.result)

\* a handler in which a rejected re-invocation request is not caught where
\* it is made: it lands in the handler's catch block, which asks again and
\* answers 500
HandlerReturnPropagating(i) ==
    /\ tasks[i].kind = "handler"
    /\ tasks[i].drv = "awaiting"
    /\ tasks[i].pc = "returned"
    /\ \E accepted \in BOOLEAN :
         LET t == tasks[i]
             rejected == WantsReschedule(t) /\ ~accepted
         IN /\ ~accepted => WantsReschedule(t)
            /\ pendingInvokes' = IF WantsReschedule(t) /\ accepted
                                 THEN pendingInvokes + 1 ELSE pendingInvokes
            /\ tasks' = [tasks EXCEPT ![i] = [Settled(@) EXCEPT
                   !.out = [statusCode |-> IF rejected THEN 500 ELSE StatusCode(t),
                               body |-> IF rejected
                                        THEN JSONstringify(
                                               [success |-> FALSE,
                                                error |-> Str("invoke failed")])
                                        ELSE ResponseBody(t),
                               asked |-> WantsReschedule(t),
                               asks |-> IF rejected THEN 2
                                        ELSE IF WantsReschedule(t) THEN 1 ELSE 0,
                               at |-> now,
                               accepted |-> WantsReschedule(t) /\ accepted]]]
    /\ UNCHANGED <<config, timers, now, chain>>

HandlerReturn(i) ==
    /\ tasks[i].kind = "handler"
    /\ tasks[i].drv = "awaiting"
    /\ tasks[i].pc = "returned"
    /\ \E accepted \in BOOLEAN :
         LET t == tasks[i]
         IN /\ ~accepted => WantsReschedule(t)
            /\ pendingInvokes' = IF WantsReschedule(t) /\ accepted
                                 THEN pendingInvokes + 1 ELSE pendingInvokes
            /\ tasks' = [tasks EXCEPT ![i] = [Settled(@) EXCEPT
                   !.out = [statusCode |-> StatusCode(t),
                               body |-> ResponseBody(t),
                               asked |-> WantsReschedule(t),
                               asks |-> IF WantsReschedule(t) THEN 1 ELSE 0,
                               at |-> now,
                               accepted |-> WantsReschedule(t) /\ accepted]]]
    /\ UNCHANGED <<config, timers, now, chain>>

\* what the re-invocation about to run goes back to: the invocation that
\* asked for it was a read, or was itself asked for by a read's chain
CauseOfNext ==
    IF \E i \in TaskIds :
          /\ tasks[i].kind = "handler" /\ Finished(tasks[i])
          /\ "accepted" \in DOMAIN tasks[i].out /\ tasks[i].out.accepted
          /\ (tasks[i].op # "update" \/ tasks[i].cause = "read")
    THEN "read" ELSE "update"

\* the host runs a re-invocation it accepted: Payload {}
DeliverInvocation ==
    /\ pendingInvokes > 0
    /\ Len(tasks) < MaxTasks
    /\ pendingInvokes' = pendingInvokes - 1
    /\ tasks' = Started(
           [NewTask("handler", HandlerDispatch(Ev("", "", FALSE)),
                    Ev("", "", FALSE), now)
               EXCEPT !.cause = CauseOfNext])
    /\ txs' = SettledTxs
    /\ UNCHANGED <<config, timers, now, balance, prices, epoch>>

(***************************************************************************)
(* The specification.                                                      *)
(***************************************************************************)
InitialPrices ==
    [k \in Accessors \X Addr |->
        IF k = <<"getUnderlyingPrice", "0xAAA">> THEN <<1, 500000000, 0>>
        ELSE IF k = <<"getUnderlyingPrice", "0xBBB">> THEN REVERT
        ELSE IF k = <<"assetPrices", "0xAAA">> THEN <<0, 0, 1>>
        ELSE <<2000, 0, 999999999>>]

Init ==
    /\ variant \in Variants
    /\ driver \in Drivers
    /\ variant = "script" => driver = "cli"
    /\ PRIVATE_KEY \in Keys
    /\ awsEnv \in BOOLEAN
    /\ awsEnv => (variant = "lambda" /\ driver = "handler")
    /\ tasks = <<>>
    /\ timers = <<>>
    /\ pendingInvokes = 0
    /\ now = 0
    /\ balance \in 0..MaxBalance
    /\ prices = InitialPrices
    /\ epoch = 0
    /\ txs = <<>>

Next ==
    \/ StartProcess
    \/ InvokeHandler
    \/ DeliverInvocation
    \/ TimerFire
    \/ PriceChange
    \/ \E k \in DOMAIN txs : Mine(k)
    \/ \E i \in TaskIds : AwaitGetBalance(i)
    \/ \E i \in TaskIds : AwaitFetch(i)
    \/ \E i \in TaskIds : AwaitPyth(i)
    \/ \E i \in TaskIds : AwaitFee(i)
    \/ \E i \in TaskIds : AwaitSend(i)
    \/ \E i \in TaskIds : AwaitWait(i)
    \/ \E i \in TaskIds : AwaitRead(i)
    \/ \E i \in TaskIds : CliExit(i)
    \/ \E i \in TaskIds : RunUpdateSchedule(i)
    \/ \E i \in TaskIds : Tick(i)
    \/ \E i \in TaskIds : HandlerReturn(i)

Spec == Init /\ [][Next]_vars

(***************************************************************************)
(* The fetch step alone, over every binary.data array of the bounded sizes *)
(* (the strings of at most MaxStrLen characters, at most MaxListLen of     *)
(* them).                                                                  *)
(***************************************************************************)
AllLists == ListsUpTo(MaxListLen, StringsUpTo(MaxStrLen))

FetchAny(i) == FetchStep(i, AllLists)

FetchInit ==
    /\ Init
    /\ driver = "cli"
    /\ PRIVATE_KEY # ""
    /\ balance = 0

FetchNext ==
    \/ /\ tasks = <<>>
       /\ StartProcess
    \/ \E i \in TaskIds : AwaitGetBalance(i)
    \/ \E i \in TaskIds : FetchAny(i)

FetchSpec == FetchInit /\ [][FetchNext]_vars

(***************************************************************************)
(* The scheduler alone, run without end.  The program keeps nothing of a   *)
(* finished cycle but the timer it set, and uses Date.now() only for the   *)
(* difference endTime - startTime: when a timer fires, the record of the   *)
(* cycle before it is dropped and the clock is read from 0 again, which    *)
(* keeps the state space finite.  A transaction still pending then is      *)
(* taken as dropped by the network.                                        *)
(***************************************************************************)
LiveInit ==
    /\ Init
    /\ variant = "ts"
    /\ driver = "cli"

\* startContinuousUpdates(): await runUpdate()
StartContinuous ==
    /\ tasks = <<>>
    /\ StartProcess
    /\ tasks'[1].kind = "runUpdate"

\* a pending timer expires and calls runUpdate
TimerRestart ==
    /\ timers # <<>>
    /\ \A i \in TaskIds : Finished(tasks[i])
    /\ now' = 0
    /\ tasks' = <<NewTask("runUpdate", "update", Ev("continuous", "", FALSE), 0)>>
    /\ timers' = Tail(timers)
    /\ txs' = <<>>
    /\ UNCHANGED <<config, pendingInvokes, balance, prices, epoch>>

LiveNext ==
    \/ StartContinuous
    \/ TimerRestart
    \/ \E k \in DOMAIN txs : Mine(k)
    \/ \E i \in TaskIds : AwaitGetBalance(i)
    \/ \E i \in TaskIds : AwaitFetch(i)
    \/ \E i \in TaskIds : AwaitPyth(i)
    \/ \E i \in TaskIds : AwaitFee(i)
    \/ \E i \in TaskIds : AwaitSend(i)
    \/ \E i \in TaskIds : AwaitWait(i)
    \/ \E i \in TaskIds : RunUpdateSchedule(i)
    \/ \E i \in TaskIds : Tick(i)

\* a timer that was set expires, an awaited call settles, a sent
\* transaction is decided, and runUpdate resumes when its await has settled
LiveFairness ==
    /\ WF_vars(TimerRestart)
    /\ WF_vars(\E k \in DOMAIN txs : Mine(k))
    /\ WF_vars(\E i \in TaskIds : AwaitGetBalance(i))
    /\ WF_vars(\E i \in TaskIds : AwaitFetch(i))
    /\ WF_vars(\E i \in TaskIds : AwaitPyth(i))
    /\ WF_vars(\E i \in TaskIds : AwaitFee(i))
    /\ WF_vars(\E i \in TaskIds : AwaitSend(i))
    /\ WF_vars(\E i \in TaskIds : AwaitWait(i))
    /\ WF_vars(\E i \in TaskIds : RunUpdateSchedule(i))

LiveSpec == LiveInit /\ [][LiveNext]_vars /\ LiveFairness

(***************************************************************************)
(* The readers alone, from the command line.  Every process reads          *)
(* PRIVATE_KEY_TEST from its own environment when the module is loaded, so *)
(* between two processes the credential can be set, unset or replaced.     *)
(***************************************************************************)
ReadKeys == Keys \cup {"k2"}

ReadInit ==
    /\ Init
    /\ driver = "cli"
    /\ balance = 0

\* the environment of the next process has another PRIVATE_KEY_TEST
ChangeKey ==
    /\ Quiescent
    /\ tasks # <<>>
    /\ Len(tasks) < MaxTasks
    /\ \E k \in ReadKeys \ {PRIVATE_KEY} : PRIVATE_KEY' = k
    /\ UNCHANGED <<variant, driver, awsEnv, tasks, timers, pendingInvokes,
                   now, chain>>

\* price <address> or asset-price <address> from the command line
StartRead ==
    /\ StartProcess
    /\ Last(tasks').op # "update"

ReadNext ==
    \/ ChangeKey
    \/ StartRead
    \/ PriceChange
    \/ \E i \in TaskIds : AwaitRead(i)
    \/ \E i \in TaskIds : CliExit(i)

ReadSpec == ReadInit /\ [][ReadNext]_vars

(***************************************************************************)
(* Properties.                                                             *)
(***************************************************************************)
\* a finished task that a later start has blanked
Retired(t) == Finished(t) /\ "none" \in DOMAIN t.out

HasPrefix0x(x) == Len(x) >= 2 /\ x[1] = "0" /\ x[2] = "x"

RECURSIVE Rep(_, _)
Rep(c, n) == IF n = 0 THEN <<>> ELSE <<c>> \o Rep(c, n - 1)

\* the decimal digits of the on-chain integers of the model, written out
ExpectedDecimal(v) ==
    CASE v = <<0, 0, 1>> -> <<"1">>
      [] v = <<1, 500000000, 0>> -> <<"1", "5">> \o Rep("0", 17)
      [] v = <<1, 0, 0>> -> <<"1">> \o Rep("0", 18)
      [] v = <<2000, 0, 999999999>> ->
             <<"2">> \o Rep("0", 12) \o Rep("9", 9)

\* the same integers divided by 10^18, written out
ExpectedScaled(v) ==
    CASE v = <<0, 0, 1>> -> <<"0", ".">> \o Rep("0", 17) \o <<"1">>
      [] v = <<1, 500000000, 0>> -> <<"1", ".", "5">>
      [] v = <<1, 0, 0>> -> <<"1", ".", "0">>
      [] v = <<2000, 0, 999999999>> ->
             <<"2", "0", "0", "0", ".">> \o Rep("0", 9) \o Rep("9", 9)

\* C1 (as claimed): in continuous mode a cycle that returned failure is
\* followed by Backoff, the next cycle being scheduled exactly 10000 ms later.
C1_FailedCycleBacksOff ==
    \A i \in TaskIds :
        LET t == tasks[i]
        IN (t.kind = "runUpdate" /\ Finished(t) /\ IsResult(t.result)
              /\ ~t.result.success)
           => (t.out.backoff /\ t.out.delay = 10000)

\* C2: after a successful cycle of execution time E the next cycle is
\* scheduled after max(500, 45000 - E) ms: 500 for every E >= 45000, never
\* below 500, never above 45000; the timer set carries that delay.
C2_SuccessDelay ==
    \A i \in TaskIds :
        LET t == tasks[i]
        IN (t.kind = "runUpdate" /\ Finished(t) /\ IsResult(t.result)
              /\ t.result.success)
           => LET E == t.out.executionTime
                  d == t.out.delay
              IN /\ ~t.out.backoff
                 /\ d = (IF E >= 44500 THEN 500 ELSE 45000 - E)
                 /\ E >= 45000 => d = 500
                 /\ d >= 500 /\ d <= 45000
                 /\ \/ Len(tasks) > i
                    \/ \E k \in 1..Len(timers) :
                          timers[k].by = i /\ timers[k].delay = d

C2_LongCycleWitness ==
    \E i \in TaskIds :
        /\ tasks[i].kind = "runUpdate" /\ Finished(tasks[i])
        /\ IsResult(tasks[i].result) /\ tasks[i].result.success
        /\ tasks[i].out.executionTime >= 45000
        /\ tasks[i].out.delay = 500

\* C3: at most one submission cycle is in flight, and a cycle is only
\* started when every cycle before it has run to completion.
C3_AtMostOneCycle ==
    \A i, j \in TaskIds :
        (i < j /\ tasks[i].op = "update" /\ tasks[j].op = "update")
        => (tasks[i].pc = "returned" /\ ~InFlight(tasks[i]))

C3_SecondCycleRunning ==
    /\ Len(tasks) >= 2
    /\ tasks[2].kind = "runUpdate"
    /\ tasks[2].op = "update"
    /\ InFlight(tasks[2])
    /\ tasks[1].kind = "runUpdate"

\* C4 (as claimed): the handler's status code is 200 when the dispatched
\* operation succeeded and 500 when it failed, agreeing with the success flag
\* of the result in the body.
C4_StatusAgreesWithSuccess ==
    \A i \in TaskIds :
        LET t == tasks[i]
        IN (t.kind = "handler" /\ Finished(t) /\ ~Retired(t))
           => /\ t.out.statusCode \in {200, 500}
              /\ (t.out.statusCode = 200) <=> t.out.body.json.success

\* C5 (as claimed): every public operation completes by returning a tagged
\* result, success with the hash or the price, or failure with the error
\* message; it never throws and never returns anything else.
C5_TaggedResult ==
    \A i \in TaskIds :
        LET t == tasks[i]
            r == t.result
        IN (t.pc = "returned" /\ ~Retired(t))
           => /\ ~t.threw
              /\ IsResult(r)
              /\ r.success =>
                    IF t.op = "update" THEN "hash" \in DOMAIN r
                    ELSE "price" \in DOMAIN r
              /\ ~r.success =>
                    ("error" \in DOMAIN r /\ r.error.type = "string")

\* C6: a send attempted with a signer balance below the quoted fee ends the
\* cycle with a failure result; it is not reported as success.
C6_InsufficientBalanceFails ==
    [][\A i \in TaskIds :
          (tasks[i].pc = "send" /\ balance < tasks[i].fee
             /\ tasks'[i].pc # "send")
          => /\ tasks'[i].pc = "returned"
             /\ IsResult(tasks'[i].result)
             /\ ~tasks'[i].result.success
             /\ txs' = txs]_vars

C6_RejectedWitness ==
    \E i \in TaskIds :
        /\ tasks[i].op = "update" /\ tasks[i].pc = "returned"
        /\ tasks[i].calls # <<>>
        /\ Last(tasks[i].calls) = "updatePythPrices"
        /\ IsResult(tasks[i].result) /\ ~tasks[i].result.success
        /\ tasks[i].tx = 0
        /\ balance < 2 /\ balance > 0

\* C7: the fetch step yields a list of the same length and order as the
\* service's, every element starting with 0x: a prefixed element unchanged,
\* an unprefixed one with exactly one 0x prepended; normalizing again
\* changes nothing.
C7_Normalized ==
    \A i \in TaskIds :
        tasks[i].pc = "pyth"
        => LET raw == tasks[i].rawData
               d == tasks[i].data
           IN /\ Len(d) = Len(raw)
              /\ \A k \in 1..Len(raw) :
                    /\ HasPrefix0x(d[k])
                    /\ HasPrefix0x(raw[k]) => d[k] = raw[k]
                    /\ ~HasPrefix0x(raw[k]) => d[k] = <<"0", "x">> \o raw[k]
              /\ NormalizeAll(d) = d

C7_MixedListWitness ==
    \E i \in TaskIds :
        /\ tasks[i].pc = "pyth"
        /\ Len(tasks[i].rawData) = 2
        /\ HasPrefix0x(tasks[i].rawData[1])
        /\ ~HasPrefix0x(tasks[i].rawData[2])
        /\ tasks[i].rawData[2] # <<>>

\* C8: a cycle returns success, with the transaction's hash, only when its
\* transaction was sent and its confirmation observed by the wait that
\* followed; a failed send or a failed wait gives a failure result.
C8_SuccessOnlyAfterConfirmation ==
    \A i \in TaskIds :
        LET t == tasks[i]
            n == Len(t.calls)
        IN (t.op = "update" /\ t.pc = "returned" /\ IsResult(t.result)
              /\ t.result.success)
           => /\ t.tx \in DOMAIN txs
              /\ txs[t.tx].by = i
              /\ txs[t.tx].status = "mined"
              /\ t.result.hash = t.tx
              /\ n >= 2
              /\ t.calls[n - 1] = "updatePythPrices"
              /\ t.calls[n] = "wait"

C8_ConfirmedWitness ==
    \E i \in TaskIds :
        /\ tasks[i].op = "update" /\ tasks[i].pc = "returned"
        /\ IsResult(tasks[i].result) /\ tasks[i].result.success
        /\ tasks[i].result.hash = 1

IsRead(t) == t.op # "update" /\ t.pc = "returned" /\ IsResult(t.result)

SameResult(r1, r2) ==
    /\ r1.success = r2.success
    /\ r1.success => r1.price = r2.price
    /\ ~r1.success => r1.error = r2.error

\* the call did not reach the chain, or its answer did not come back
TransportFailed(r) ==
    /\ ~r.success
    /\ r.error = (IF variant = "script" THEN Err("rpc error")
                  ELSE Str("rpc error"))

\* C9 (as claimed): two calls of the same read with the same address and no
\* price change in between yield the same result.
C9_SameReadSameResult ==
    \A i, j \in TaskIds :
        (i < j /\ IsRead(tasks[i]) /\ IsRead(tasks[j])
           /\ tasks[i].op = tasks[j].op /\ tasks[i].addr = tasks[j].addr
           /\ tasks[i].epoch = tasks[j].epoch)
        => SameResult(tasks[i].result, tasks[j].result)

\* C9 (amended): a read makes exactly one contract call, of its accessor, and
\* leaves the chain as it was; two calls of the same read with the same
\* address and no price change in between yield the same result whenever the
\* chain answered both (a call lost in transport returns failure instead).
C9_ReadsIdempotent ==
    /\ [](\A i \in TaskIds :
            LET t == tasks[i]
            IN /\ (t.op # "update" /\ t.pc = "read") => t.calls = <<>>
               /\ (IsRead(t) /\ ~Retired(t))
                  => t.calls = <<IF t.op = "price" THEN "getUnderlyingPrice"
                                 ELSE "assetPrices">>)
    /\ [](\A i, j \in TaskIds :
            (i < j /\ IsRead(tasks[i]) /\ IsRead(tasks[j])
               /\ tasks[i].op = tasks[j].op /\ tasks[i].addr = tasks[j].addr
               /\ tasks[i].epoch = tasks[j].epoch
               /\ ~TransportFailed(tasks[i].result)
               /\ ~TransportFailed(tasks[j].result))
            => SameResult(tasks[i].result, tasks[j].result))
    /\ [][(\E i \in TaskIds : tasks[i].pc = "read" /\ tasks'[i].pc = "returned")
            => UNCHANGED <<balance, prices, txs>>]_vars

C9_TwoReadsWitness ==
    \E i, j \in TaskIds :
        /\ i < j /\ IsRead(tasks[i]) /\ IsRead(tasks[j])
        /\ tasks[i].op = tasks[j].op /\ tasks[i].addr = tasks[j].addr
        /\ tasks[i].epoch = tasks[j].epoch
        /\ tasks[i].result.success /\ tasks[j].result.success
        /\ epoch > tasks[j].epoch

\* a successful read whose raw on-chain integer is still at hand
FreshRead(t) == IsRead(t) /\ t.result.success /\ t.raw # REVERT

\* C10 (as claimed): a successful read returns the price as the decimal
\* string of the raw integer divided by 10^18.
C10_ScaledPriceReturned ==
    \A i \in TaskIds :
        FreshRead(tasks[i])
        => tasks[i].result.price = Str(ExpectedScaled(tasks[i].raw))

\* C10 (amended): a successful read returns the raw on-chain integer
\* unscaled (as its decimal string; as the integer itself in the direct
\* script); the value divided by 10^18 is only written to the log.
C10_RawPriceReturned ==
    \A i \in TaskIds :
        FreshRead(tasks[i])
        => /\ tasks[i].logged = ExpectedScaled(tasks[i].raw)
           /\ tasks[i].result.price =
                 (IF variant = "script" THEN BigInt(tasks[i].raw)
                  ELSE Str(ExpectedDecimal(tasks[i].raw)))

C10_FractionalWitness ==
    \E i \in TaskIds :
        /\ FreshRead(tasks[i])
        /\ tasks[i].raw = <<1, 500000000, 0>>
        /\ variant = "ts"

\* what a task runs: the scheduler, one submission cycle, or one of the reads
Selected(t) == IF t.kind = "runUpdate" THEN "continuous" ELSE t.op

\* C11 (as claimed): the handler runs for an event (command, address) what
\* the command line runs for these arguments: price with an address the
\* derived-price read, asset-price with an address the raw-asset read,
\* continuous the scheduler, no command exactly one submission cycle.
C11_HandlerDispatchesAsCli ==
    \A i \in TaskIds :
        LET t == tasks[i]
        IN (t.kind = "handler" /\ ~Retired(t))
           => /\ (t.cmd = "price" /\ t.addr # "") => Selected(t) = "price"
              /\ (t.cmd = "asset-price" /\ t.addr # "") => Selected(t) = "asset"
              /\ t.cmd = "continuous" => Selected(t) = "continuous"
              /\ t.cmd = "" => Selected(t) = "update"

\* C11 (amended): handler and command line alike run the derived-price read
\* for price with an address, the raw-asset read for asset-price with an
\* address, and exactly one submission cycle for anything else, except that
\* the command line of the scheduler module runs the scheduler for
\* continuous; the handler runs one submission cycle for continuous too.
C11_DispatchTable ==
    \A i \in TaskIds :
        LET t == tasks[i]
            reads == t.cmd \in {"price", "asset-price"} /\ t.addr # ""
        IN (t.kind \in {"handler", "cli", "runUpdate"} /\ ~Retired(t))
           => /\ (t.cmd = "price" /\ t.addr # "") => Selected(t) = "price"
              /\ (t.cmd = "asset-price" /\ t.addr # "") => Selected(t) = "asset"
              /\ (t.cmd = "continuous" /\ t.kind # "handler" /\ variant = "ts")
                    => Selected(t) = "continuous"
              /\ (t.cmd = "continuous" /\ (t.kind = "handler" \/ variant # "ts"))
                    => Selected(t) = "update"
              /\ (~reads /\ t.cmd # "continuous") => Selected(t) = "update"
              /\ Selected(t) = "continuous" => t.op = "update"

C11_HandlerContinuousWitness ==
    \E i \in TaskIds :
        /\ tasks[i].kind = "handler" /\ tasks[i].cmd = "continuous"
        /\ tasks[i].op = "update" /\ Finished(tasks[i]) /\ ~Retired(tasks[i])
        /\ tasks[i].out.statusCode = 200
        /\ timers = <<>>

C13_ReinvokedAfterInterval ==
    [][pendingInvokes' < pendingInvokes
         => \A i \in TaskIds :
               (tasks[i].kind = "handler" /\ Finished(tasks[i])
                  /\ ~Retired(tasks[i]) /\ tasks[i].out.accepted)
               => tasks'[Len(tasks')].startTime
                     >= tasks[i].out.at + UPDATE_INTERVAL]_vars

\* the external calls of one submission cycle, in the order of the workflow:
\* attestation fetch, verifier-address read, fee quote, send, confirmation
PipelineCalls == <<"hermes", "pyth", "getUpdateFee", "updatePythPrices", "wait">>

IsPrefix(q, r) == Len(q) <= Len(r) /\ q = SubSeq(r, 1, Len(q))

\* a submission cycle that has returned its result
CycleReturned(t) ==
    t.op = "update" /\ t.pc = "returned" /\ IsResult(t.result)

\* C14 (as claimed): a cycle's external calls and its result do not depend
\* on the variant that runs it: whichever variant runs, the calls are those
\* of the workflow, in order, up to the first one that fails, and the result
\* is the hash or the failure's message.
C14_SamePerCycleBehaviour ==
    \A i \in TaskIds :
        LET t == tasks[i]
        IN CycleReturned(t)
           => /\ IsPrefix(t.calls, PipelineCalls)
              /\ t.result.success => t.calls = PipelineCalls
              /\ ~t.result.success => t.result.error.type = "string"

\* the cycle of task t failed because the signing credential is absent
FailedForCredential(t) ==
    /\ CycleReturned(t)
    /\ ~t.result.success
    /\ t.result.error = (IF variant = "script" THEN Err(NO_KEY_MESSAGE)
                         ELSE Str(NO_KEY_MESSAGE))

\* C15 (as claimed): a missing credential is fatal and never retried: once
\* a scheduled cycle has failed for it, no timer is set for another cycle
\* and no further cycle starts.
C15_MissingCredentialNotRetried ==
    \A i \in TaskIds :
        (tasks[i].kind = "runUpdate" /\ Finished(tasks[i])
           /\ FailedForCredential(tasks[i]))
        => /\ \A k \in 1..Len(timers) : timers[k].by # i
           /\ Len(tasks) = i

\* C16 (as claimed): a one-shot command exits with code 0 when its
\* operation succeeded and with code 1 when it failed; a failed operation
\* never leads to exit code 0.
C16_ExitCodeAgreesWithSuccess ==
    \A i \in TaskIds :
        LET t == tasks[i]
        IN (t.kind = "cli" /\ Finished(t) /\ ~Retired(t))
           => /\ t.out.exit \in {0, 1}
              /\ (t.out.exit = 0) <=> t.result.success

\* the scheduler's current cycle has returned and runUpdate has not gone on
CycleDone ==
    /\ tasks # <<>>
    /\ Last(tasks).kind = "runUpdate"
    /\ Last(tasks).pc = "returned" /\ Last(tasks).drv = "awaiting"

\* runUpdate has set the timer for the next cycle and ended
TimerSet ==
    /\ tasks # <<>>
    /\ Last(tasks).kind = "runUpdate" /\ Last(tasks).drv = "finished"
    /\ timers # <<>>

\* a call of runUpdate is under way
CycleStarted ==
    /\ tasks # <<>>
    /\ Last(tasks).kind = "runUpdate" /\ Last(tasks).drv = "awaiting"

\* C17: in continuous mode the loop never stops by itself: with timers
\* that expire and external calls that settle, every cycle that is started
\* completes, every completed cycle, successful or failed, sets the timer
\* for the next one, and the next one starts.
C17_LoopNeverStops ==
    /\ CycleStarted ~> CycleDone
    /\ CycleDone ~> TimerSet
    /\ TimerSet ~> CycleStarted

C17_FailedCycleRescheduledWitness ==
    /\ TimerSet
    /\ IsResult(Last(tasks).result) /\ ~Last(tasks).result.success
    /\ Last(tasks).calls # <<>>
    /\ now > 0

\* C18 (as claimed): a cycle that returned failure leaves no partial
\* submission: the transaction it sent, if any, is neither pending nor
\* accepted on chain.
C18_FailedCycleLeavesNothing ==
    \A i \in TaskIds :
        LET t == tasks[i]
        IN (CycleReturned(t) /\ ~t.result.success /\ t.tx \in DOMAIN txs)
           => txs[t.tx].status \notin {"pending", "mined"}

\* the calls of a cycle that are steps of the workflow (the balance read
\* that two of the builds begin with is none of them)
Steps(t) == SelectSeq(t.calls, LAMBDA c : c # "getBalance")

\* the position in the workflow of the step a cycle is waiting for
StepIndex(pc) ==
    CASE pc = "fetch" -> 1 [] pc = "pyth" -> 2 [] pc = "fee" -> 3
      [] pc = "send" -> 4 [] pc = "wait" -> 5 [] OTHER -> 0

\* C19: within one cycle the steps run in the order attestation fetch,
\* verifier-address read, fee quote, send, confirmation wait, each attempted
\* at most once; a cycle waits for step k only after steps 1..k-1 answered;
\* the first step that fails ends the cycle with failure and no later step
\* is attempted; a transaction is sent only after fetch and fee quote
\* answered in that cycle.
C19_StepsInOrderOnce ==
    /\ [](\A i \in TaskIds :
            LET t == tasks[i]
                st == Steps(t)
            IN (t.op = "update" /\ ~Retired(t))
               => /\ IsPrefix(st, PipelineCalls)
                  /\ StepIndex(t.pc) > 0 => Len(st) = StepIndex(t.pc) - 1
                  /\ (CycleReturned(t) /\ t.result.success) => st = PipelineCalls
                  /\ (\E k \in DOMAIN txs : txs[k].by = i /\ LiveTx(k))
                        => (Len(st) >= 4 /\ st[1] = "hermes"
                              /\ st[3] = "getUpdateFee"))
    /\ [][\A i \in TaskIds :
            /\ (InFlight(tasks[i]) /\ tasks[i].op = "update"
                  /\ tasks'[i].calls # tasks[i].calls)
               => /\ Len(tasks'[i].calls) = Len(tasks[i].calls) + 1
                  /\ \/ StepIndex(tasks'[i].pc) = StepIndex(tasks[i].pc) + 1
                     \/ /\ tasks'[i].pc = "returned"
                        /\ tasks'[i].result.success => tasks[i].pc = "wait"
            /\ (CycleReturned(tasks[i]) /\ ~Finished(tasks[i]))
               => tasks'[i].calls = tasks[i].calls]_vars

C19_FeeQuoteFailedWitness ==
    \E i \in TaskIds :
        /\ CycleReturned(tasks[i]) /\ ~tasks[i].result.success
        /\ Steps(tasks[i]) = <<"hermes", "pyth", "getUpdateFee">>
        /\ txs = <<>>

\* C20: when a price-update transaction is sent, the payment attached is
\* the fee the verifier quoted in that cycle, and the blobs passed are the
\* blobs that fee was quoted for (the normalized blobs of that cycle's
\* fetch).
C20_PaysQuotedFee ==
    \A i \in TaskIds :
        LET t == tasks[i]
        IN (t.op = "update" /\ t.pc = "wait")
           => /\ t.tx \in DOMAIN txs
              /\ txs[t.tx].by = i
              /\ txs[t.tx].value = t.fee
              /\ txs[t.tx].value = FeeQuote(txs[t.tx].data)
              /\ txs[t.tx].data = t.data
              /\ txs[t.tx].data = NormalizeAll(t.rawData)

C20_TwoBlobsSentWitness ==
    \E i \in TaskIds :
        /\ tasks[i].op = "update" /\ tasks[i].pc = "wait"
        /\ Len(tasks[i].data) = 2
        /\ txs[tasks[i].tx].value = 2
        /\ txs[tasks[i].tx].status = "mined"

\* C21: with the signing credential absent a submission cycle fails at
\* once, with the error that names the missing variable, before any
\* external interaction: it makes no balance read, no fetch, no contract
\* read, and no transaction is sent.
C21_NoCredentialFailsFast ==
    PRIVATE_KEY = ""
    => /\ txs = <<>>
       /\ \A i \in TaskIds :
             LET t == tasks[i]
             IN (t.op = "update" /\ ~Retired(t))
                => /\ t.pc = "returned"
                   /\ t.calls = <<>>
                   /\ FailedForCredential(t)
                   /\ t.tx = 0

C21_NoCredentialWitness ==
    \E i \in TaskIds :
        /\ PRIVATE_KEY = ""
        /\ tasks[i].kind = "handler" /\ tasks[i].op = "update"
        /\ Finished(tasks[i]) /\ ~Retired(tasks[i])
        /\ FailedForCredential(tasks[i])
        /\ balance > 0

\* C22 (as claimed): a handler invocation with a read command never causes
\* a price-update transaction to be sent, neither itself nor through an
\* invocation that goes back to it.
C22_ReadNeverCausesSend ==
    \A i \in TaskIds :
        LET t == tasks[i]
        IN (t.kind = "handler" /\ (t.op # "update" \/ t.cause = "read"))
           => /\ t.tx = 0
              /\ "updatePythPrices" \notin {t.calls[k] : k \in 1..Len(t.calls)}
              /\ \A k \in DOMAIN txs : txs[k].by # i

\* the event of a handler task is a read command with a non-empty address
ReadCommand(t) == t.cmd \in {"price", "asset-price"} /\ t.addr # ""

\* the failures a submission cycle reports
CycleErrors ==
    {NO_KEY_MESSAGE, "rpc error", "network error", "malformed response",
     "insufficient funds", "transaction failed"}

\* C23: the handler runs a full submission cycle for every event that is
\* not a read command with a non-empty address (price or asset-price
\* without an address, any other command, no command): the invocation's
\* result is that of the cycle, never an error about the event, and only a
\* read command with an address runs a read.
C23_HandlerDefaultsToCycle ==
    \A i \in TaskIds :
        LET t == tasks[i]
        IN (t.kind = "handler" /\ ~Retired(t))
           => /\ ReadCommand(t) <=> t.op # "update"
              /\ (~ReadCommand(t) /\ t.pc = "returned")
                    => /\ CycleReturned(t)
                       /\ t.result.success => t.result.hash = t.tx
                       /\ ~t.result.success
                             => t.result.error \in {Str(m) : m \in CycleErrors}
              /\ (~ReadCommand(t) /\ Finished(t))
                    => t.out.body = JSONstringify(t.result)

C23_PriceWithoutAddressSendsWitness ==
    \E i \in TaskIds :
        /\ tasks[i].kind = "handler"
        /\ tasks[i].cmd = "price" /\ tasks[i].addr = ""
        /\ tasks[i].pc = "wait"
        /\ tasks[i].tx \in DOMAIN txs
        /\ txs[tasks[i].tx].value > 0

\* the host rejected the re-invocation request of the latest handler task
Rejected(t) ==
    /\ t.kind = "handler" /\ Finished(t) /\ ~Retired(t)
    /\ t.out.asks > 0 /\ ~t.out.accepted

\* C24: a failed re-invocation request is swallowed: the handler's status
\* code and body are those of the operation's result whether the host
\* accepted the request or not; the request is made once and not retried,
\* and no re-invocation follows it: the chain ends, and only an invocation
\* from outside starts the handler again.
C24_RescheduleFailureSwallowed ==
    /\ [](\A i \in TaskIds :
            LET t == tasks[i]
            IN (t.kind = "handler" /\ Finished(t) /\ ~Retired(t))
               => /\ t.out.statusCode = 200
                  /\ t.out.body.json = t.result
                  /\ Rejected(t) => (t.out.asks = 1 /\ pendingInvokes = 0))
    /\ [][(\E i \in TaskIds : Rejected(tasks[i]))
            => /\ pendingInvokes' = 0
               /\ Len(tasks') > Len(tasks)
                     => Last(tasks').cause = "external"]_vars

C24_RejectedWitness ==
    \E i \in TaskIds :
        /\ Rejected(tasks[i])
        /\ tasks[i].op = "update"
        /\ tasks[i].result.success
        /\ tasks[i].out.statusCode = 200

\* a read that failed with the missing-credential error
FailedForCredentialRead(t) ==
    /\ ~t.result.success
    /\ t.result.error = (IF variant = "script" THEN Err(NO_KEY_MESSAGE)
                         ELSE Str(NO_KEY_MESSAGE))

\* C25: the reads do not depend on the signing credential: two calls of the
\* same read with the same address and no price change in between, made
\* with the credential set, unset or set to different values, return the
\* same result whenever the chain answered both; no read ever fails for the
\* credential, and with or without it a read makes its one contract call.
C25_ReadsIgnoreCredential ==
    /\ \A i, j \in TaskIds :
          (i < j /\ IsRead(tasks[i]) /\ IsRead(tasks[j])
             /\ tasks[i].key # tasks[j].key
             /\ tasks[i].op = tasks[j].op /\ tasks[i].addr = tasks[j].addr
             /\ tasks[i].epoch = tasks[j].epoch
             /\ ~TransportFailed(tasks[i].result)
             /\ ~TransportFailed(tasks[j].result))
          => SameResult(tasks[i].result, tasks[j].result)
    /\ \A i \in TaskIds :
          IsRead(tasks[i])
          => /\ ~FailedForCredentialRead(tasks[i])
             /\ ~Retired(tasks[i]) => Len(tasks[i].calls) = 1

C25_SetAndUnsetWitness ==
    \E i, j \in TaskIds :
        /\ i < j /\ IsRead(tasks[i]) /\ IsRead(tasks[j])
        /\ tasks[i].key = "" /\ tasks[j].key = "k2"
        /\ tasks[i].op = tasks[j].op /\ tasks[i].addr = tasks[j].addr
        /\ tasks[i].epoch = tasks[j].epoch
        /\ tasks[i].result.success /\ tasks[j].result.success

====
